---------------------------- MODULE Spec2Model ----------------------------
(***************************************************************************)
(* A model of libroarchive's container abstraction layer:                  *)
(*   - RoArchive::factory (inline hint split, type resolution, dispatch),  *)
(*   - the tar backend (findPrefix, TarIndex, Tarball, TarIStream),        *)
(*   - IStream::read (whole-content read strategies),                      *)
(*   - FileHint::Matcher (priority-ordered filename matching).             *)
(*                                                                         *)
(* Strings are sequences of one-character strings, so that std::string     *)
(* operations (find, substr, ==) and boost::filesystem::path operations    *)
(* (iteration, filename, parent_path) are computed rather than assumed.    *)
(***************************************************************************)
EXTENDS Integers, Sequences, FiniteSets, TLC

VARIABLES
    files,       \* utility::tar::Reader::files() of the tar file on disk
    hasHttp,     \* build flag ROARCHIVE_HAS_HTTP
    archive,     \* the RoArchive facade (detail_, directio_), if one exists
    error,       \* the exception the last call threw, if any
    call,        \* the last facade call: its operation, inputs and outcome
    streams,     \* the TarIStream objects handed out by Tarball::istream
    hint_,       \* FileHint::Matcher: the candidate list
    bestIndex_,  \* FileHint::Matcher: index of the best candidate so far
    bestMatch_,  \* FileHint::Matcher: the path that matched it
    seen,        \* the paths fed to the matcher so far, oldest first
    mret,        \* the matcher's last call: return value, comparisons made
    src,         \* IStream: the underlying std::istream (bytes, position)
    size_,       \* IStream::size_ (optional exact size)
    seekable_,   \* IStream::seekable_
    rd           \* the last IStream::read(): strategy, outcome, buffer

tarVars   == <<files, hasHttp, archive, error, call, streams>>
matchVars == <<hint_, bestIndex_, bestMatch_, seen, mret>>
readVars  == <<src, size_, seekable_, rd>>
vars      == <<files, hasHttp, archive, error, call, streams,
               hint_, bestIndex_, bestMatch_, seen, mret,
               src, size_, seekable_, rd>>

-----------------------------------------------------------------------------
(* Bounds of the model.                                                    *)

\* most members a tar file holds
MaxMembers == 2
\* largest member size, in bytes
MaxSize == 2
\* tar block size, scaled down from 512
BlockSize == 2
\* TarIStream's buffer size, scaled down from 1 << 16
BufSize == 2
\* most candidates a FileHint holds
MaxCandidates == 2
\* most paths fed to one matcher
MaxSeen == 3
\* most bytes a generic stream holds
MaxData == 3
\* buffer size of boost::iostreams::copy, scaled down from 4096
CopyChunk == 2
\* width of std::size_t in bits, scaled down from 64
SizeBits == 6

-----------------------------------------------------------------------------
(* std::string / boost::filesystem::path helpers.                          *)

Min(a, b) == IF a <= b THEN a ELSE b

RECURSIVE Pow2(_)
Pow2(n) == IF n = 0 THEN 1 ELSE 2 * Pow2(n - 1)

\* std::string::find(char): 1-based index of the first occurrence, 0 = npos
Find(s, c) ==
    IF \E i \in 1..Len(s) : s[i] = c
    THEN CHOOSE i \in 1..Len(s) : s[i] = c /\ \A j \in 1..(i - 1) : s[j] # c
    ELSE 0

\* index of the last occurrence of c in s, 0 if none
RFind(s, c) ==
    IF \E i \in 1..Len(s) : s[i] = c
    THEN CHOOSE i \in 1..Len(s) : s[i] = c /\ \A j \in (i + 1)..Len(s) : s[j] # c
    ELSE 0

\* path iteration (path::begin .. path::end) for relative paths without a
\* trailing separator: the names between separators, runs of separators
\* counting as one
RECURSIVE Elements(_)
Elements(s) ==
    IF s = <<>> THEN <<>>
    ELSE LET i == Find(s, "/") IN
         IF i = 0 THEN <<s>>
         ELSE IF i = 1 THEN Elements(Tail(s))
         ELSE <<SubSeq(s, 1, i - 1)>> \o Elements(SubSeq(s, i + 1, Len(s)))

\* path::operator/= applied to each element in turn, then path::string()
RECURSIVE Join(_)
Join(es) ==
    IF es = <<>> THEN <<>>
    ELSE IF Len(es) = 1 THEN es[1]
    ELSE es[1] \o <<"/">> \o Join(Tail(es))

\* path::filename(): the last element
Filename(s) ==
    LET es == Elements(s) IN IF es = <<>> THEN <<>> ELSE es[Len(es)]

RECURSIVE StripSeps(_)
StripSeps(s) ==
    IF s # <<>> /\ s[Len(s)] = "/" THEN StripSeps(SubSeq(s, 1, Len(s) - 1)) ELSE s

\* path::parent_path(): what precedes the filename, separators removed
ParentPath(s) ==
    LET i == RFind(s, "/") IN
    IF i = 0 THEN <<>> ELSE StripSeps(SubSeq(s, 1, i - 1))

\* path == std::string: element-wise comparison of the two as paths
PathEq(p, q) == Elements(p) = Elements(q)

\* utility::isPathPrefix(path, prefix): prefix's elements start path's
isPathPrefix(path, prefix) ==
    LET p == Elements(path)
        q == Elements(prefix)
    IN  Len(q) <= Len(p) /\ SubSeq(p, 1, Len(q)) = q

\* utility::cutPathPrefix(path, prefix): path's elements after the prefix's
cutPathPrefix(path, prefix) ==
    LET p == Elements(path)
        q == Elements(prefix)
    IN  Join(SubSeq(p, Len(q) + 1, Len(p)))

-----------------------------------------------------------------------------
(* Optional values and errors.                                             *)

None == [has |-> FALSE]
Some(v) == [has |-> TRUE, v |-> v]

NoError == [set |-> FALSE]
\* LOGTHROW(err2, type) << text with its two arguments
Throw(type, text, a1, a2) ==
    [set |-> TRUE, type |-> type, text |-> text, a1 |-> a1, a2 |-> a2]


-----------------------------------------------------------------------------
(* The tar file on disk, as utility::tar::Reader reports it.               *)

\* the path of the tar file
ArchivePath == <<"t">>

\* the shared low-level handle, reader.filedes()
SharedFd == "fd"

MemberPaths ==
    { <<"a">>,
      <<"d", "/", "a">>,
      <<"d", "/", "b">>,
      <<"e", "/", "a">>,
      <<"d", "/", "e", "/", "a">> }

\* a member's data rounded up to whole blocks
RoundUp(n) == ((n + BlockSize - 1) \div BlockSize) * BlockSize

\* offset of the first data byte of member i: every member is a header block
\* followed by its data blocks
RECURSIVE DataStart(_, _)
DataStart(ms, i) ==
    IF i = 1 THEN BlockSize
    ELSE DataStart(ms, i - 1) + RoundUp(ms[i - 1].size) + BlockSize

\* Reader::files(): one File {path, start, size} per member, in file order
ReaderFiles(ms) ==
    [i \in 1..Len(ms) |->
        [path |-> ms[i].path, start |-> DataStart(ms, i), size |-> ms[i].size]]

\* Reader::File::end()
FileEnd(file) == file.start + file.size

\* the byte stored at an offset of the tar file: the offset itself, so that
\* a byte read tells where it was read from
ByteAt(off) == off

\* the tar files the reader can report, up to the bounds
MemberLists ==
    UNION { [1..n -> [path : MemberPaths, size : 0..MaxSize]] : n \in 0..MaxMembers }

-----------------------------------------------------------------------------
(* src/roarchive/tarball.cpp                                               *)

\* findPrefix, from file i on: the parent directory of the first file whose
\* filename is hint; the throw when the loop runs out of files
RECURSIVE findPrefixFrom(_, _, _, _)
findPrefixFrom(path, hint, fs, i) ==
    IF i > Len(fs)
    THEN [ok |-> FALSE,
          error |-> Throw("std::runtime_error",
                          "No %1 found in the tarball archive at %2.",
                          hint, path)]
    ELSE IF PathEq(Filename(fs[i].path), hint)
         THEN [ok |-> TRUE, prefix |-> ParentPath(fs[i].path)]
         ELSE findPrefixFrom(path, hint, fs, i + 1)

\* a findPrefix that keeps the last matching file instead of the first
RECURSIVE findPrefixLastFrom(_, _, _, _)
findPrefixLastFrom(path, hint, fs, i) ==
    IF i < 1
    THEN findPrefixFrom(path, hint, fs, Len(fs) + 1)
    ELSE IF PathEq(Filename(fs[i].path), hint)
         THEN [ok |-> TRUE, prefix |-> ParentPath(fs[i].path)]
         ELSE findPrefixLastFrom(path, hint, fs, i - 1)

findPrefixLast(path, hint, fs) == findPrefixLastFrom(path, hint, fs, Len(fs))

findPrefix(path, hint, fs) == findPrefixFrom(path, hint, fs, 1)

\* a descriptor that stores the file's size where its end belongs
FiledesOfSize(file) == [fd |-> SharedFd, start |-> file.start, end |-> file.size]

\* Filedes { fd, start, end } as TarIndex stores it for one file
FiledesOf(file) == [fd |-> SharedFd, start |-> file.start, end |-> FileEnd(file)]

\* the loop of TarIndex::TarIndex from file i on; std::map::insert keeps the
\* entry already stored under a key
RECURSIVE IndexInsert(_, _, _, _)
IndexInsert(fs, prefix, i, index) ==
    IF i > Len(fs) THEN index
    ELSE IF ~isPathPrefix(fs[i].path, prefix)
         THEN IndexInsert(fs, prefix, i + 1, index)
         ELSE IndexInsert(fs, prefix, i + 1,
                  index @@ (cutPathPrefix(fs[i].path, prefix) :> FiledesOf(fs[i])))

\* a TarIndex constructor that falls back to the empty prefix when the
\* anchor is missing
TarIndexCtorLenient(path, fs, hint) ==
    LET pre == IF hint.has THEN findPrefix(path, hint.v, fs)
               ELSE [ok |-> TRUE, prefix |-> <<>>]
    IN  [ok |-> TRUE, path_ |-> path,
         index_ |-> IndexInsert(fs, IF pre.ok THEN pre.prefix ELSE <<>>, 1, <<>>)]

\* TarIndex::TarIndex(reader, hint)
TarIndexCtor(path, fs, hint) ==
    LET pre == IF hint.has THEN findPrefix(path, hint.v, fs)
               ELSE [ok |-> TRUE, prefix |-> <<>>]
    IN  IF ~pre.ok THEN [ok |-> FALSE, error |-> pre.error]
        ELSE [ok |-> TRUE, path_ |-> path,
              index_ |-> IndexInsert(fs, pre.prefix, 1, <<>>)]

\* a lookup that normalises the requested path before searching
TarIndexFileNormalised(index, path) ==
    LET q == Join(Elements(path)) IN
    IF q \in DOMAIN index.index_
    THEN [ok |-> TRUE, fd |-> index.index_[q]]
    ELSE [ok |-> FALSE,
          error |-> Throw("std::runtime_error",
                          "File %1 not found in the archive at %2.",
                          path, index.path_)]

\* TarIndex::file(path): the descriptor stored under exactly this string
TarIndexFile(index, path) ==
    IF path \in DOMAIN index.index_
    THEN [ok |-> TRUE, fd |-> index.index_[path]]
    ELSE [ok |-> FALSE,
          error |-> Throw("std::runtime_error",
                          "File %1 not found in the archive at %2.",
                          path, index.path_)]

\* Tarball::Tarball(path, hint): Detail(path), reader_(path), index_(reader_, hint);
\* an exception of a member's constructor leaves no Tarball behind
TarballCtor(path, hint, ms) ==
    LET idx == TarIndexCtor(path, ReaderFiles(ms), hint) IN
    IF ~idx.ok THEN [ok |-> FALSE, error |-> idx.error]
    ELSE [ok |-> TRUE,
          detail |-> [kind |-> "Tarball", path |-> path, index |-> idx]]

\* std::size_t arithmetic
SizeT(n) == n % Pow2(SizeBits)

\* a TarIStream whose device starts at the beginning of the shared handle
\* instead of at fd.start
TarIStreamCtorAtZero(path, fd) ==
    [live |-> TRUE, path |-> path, fd |-> fd,
     size |-> SizeT(fd.end - fd.start),
     pos |-> 0, buf |-> <<>>, out |-> <<>>, eof |-> FALSE]

\* TarIStream::TarIStream(path, fd): size_(fd.end - fd.start), a device of its
\* own positioned at fd.start, and an empty buffer of its own
TarIStreamCtor(path, fd) ==
    [live |-> TRUE, path |-> path, fd |-> fd,
     size |-> SizeT(fd.end - fd.start),
     pos |-> fd.start, buf |-> <<>>, out |-> <<>>, eof |-> FALSE]

\* Tarball::istream(path)
TarballIstream(detail, path) ==
    LET f == TarIndexFile(detail.index, path) IN
    IF ~f.ok THEN [ok |-> FALSE, error |-> f.error]
    ELSE [ok |-> TRUE, stream |-> TarIStreamCtor(path, f.fd)]


-----------------------------------------------------------------------------
(* src/roarchive/roarchive.cpp: RoArchive::factory and the facade.         *)

MimeDirectory == "inode/directory"
MimeTar       == "application/x-tar"
MimeZip       == "application/zip"
MimeHttp      == "http"

SchemeHttp  == <<"h", "t", "t", "p">>
SchemeHttps == <<"h", "t", "t", "p", "s">>

\* utility::Uri(str).scheme(): the text before the first ':'; empty when the
\* string has no scheme (or does not parse: factory swallows the exception)
UriScheme(str) ==
    LET i == Find(str, ":") IN IF i = 0 THEN <<>> ELSE SubSeq(str, 1, i - 1)

\* a split at the marker's last occurrence instead of its first
SplitInlineHintLast(path, opts) ==
    IF opts.inlineHint.has
    THEN LET split == RFind(path, opts.inlineHint.v) IN
         IF split # 0
         THEN [path |-> SubSeq(path, 1, split - 1),
               hint |-> Some(SubSeq(path, split + 1, Len(path)))]
         ELSE [path |-> path, hint |-> opts.hint]
    ELSE [path |-> path, hint |-> opts.hint]

\* lines 50-59: the inline hint split
SplitInlineHint(path, opts) ==
    IF opts.inlineHint.has
    THEN LET split == Find(path, opts.inlineHint.v) IN
         IF split # 0
         THEN [path |-> SubSeq(path, 1, split - 1),
               hint |-> Some(SubSeq(path, split + 1, Len(path)))]
         ELSE [path |-> path, hint |-> opts.hint]
    ELSE [path |-> path, hint |-> opts.hint]

\* a type resolution that sniffs before it looks at the URI scheme
ResolveMagicSniffFirst(path, mime, sniffed) ==
    IF mime # "" THEN mime
    ELSE IF sniffed # "" THEN sniffed
    ELSE IF UriScheme(path) = SchemeHttp \/ UriScheme(path) = SchemeHttps
         THEN MimeHttp ELSE ""

\* lines 61-74: the type the dispatch goes by
ResolveMagic(path, mime, sniffed) ==
    LET m == IF mime = ""
             THEN IF UriScheme(path) = SchemeHttp \/ UriScheme(path) = SchemeHttps
                  THEN MimeHttp ELSE ""
             ELSE mime
    IN  IF m = "" THEN sniffed ELSE m

\* directory(), zip(), http(): backends outside this model; their
\* constructors succeed or throw as extOk says
ExternalCtor(kind, path, hint, extOk) ==
    IF extOk
    THEN [ok |-> TRUE, detail |-> [kind |-> kind, path |-> path, hint |-> hint]]
    ELSE [ok |-> FALSE,
          error |-> Throw("std::runtime_error", "backend construction failed",
                          kind, path)]

\* lines 76-85: the dispatch
Dispatch(magic, path, hint, ms, http, extOk) ==
    IF magic = MimeDirectory THEN ExternalCtor("Directory", path, hint, extOk)
    ELSE IF magic = MimeTar THEN TarballCtor(path, hint, ms)
    ELSE IF magic = MimeZip THEN ExternalCtor("Zip", path, hint, extOk)
    ELSE IF http /\ magic = MimeHttp THEN ExternalCtor("Http", path, hint, extOk)
    ELSE [ok |-> FALSE,
          error |-> Throw("NotAnArchive", "Unsupported archive type <%1>.",
                          magic, <<>>)]

\* RoArchive::factory(path, openOptions); sniffed is what utility::Magic
\* answers for the real path, ms the members of the tar file there
Factory(path, opts, sniffed, ms, http, extOk) ==
    LET sp    == SplitInlineHint(path, opts)
        magic == ResolveMagic(sp.path, opts.mime, sniffed)
        made  == Dispatch(magic, sp.path, sp.hint, ms, http, extOk)
    IN  [path |-> sp.path, hint |-> sp.hint, magic |-> magic, made |-> made]

NoArchive == [open |-> FALSE]
NoStream  == [live |-> FALSE]
NoCall    == [op |-> "none"]

\* the streams a caller holds at once
StreamIds == {1, 2}

\* RoArchive::RoArchive(path, openOptions): detail_(factory(path, openOptions));
\* a run constructs one facade, and a factory that throws leaves none behind
\* (directio_, copied from the backend, plays no part here and is left out)
Open(path, opts, sniffed, extOk) ==
    /\ call.op = "none"
    /\ LET f == Factory(path, opts, sniffed, files, hasHttp, extOk) IN
       /\ archive' = IF f.made.ok THEN [open |-> TRUE, detail |-> f.made.detail]
                     ELSE archive
       /\ error' = IF f.made.ok THEN NoError ELSE f.made.error
       /\ call' = [op |-> "open", path |-> path, opts |-> opts,
                   sniffed |-> sniffed, realPath |-> f.path, hint |-> f.hint,
                   magic |-> f.magic, ok |-> f.made.ok]
    /\ UNCHANGED <<files, hasHttp, streams>>
    /\ UNCHANGED <<matchVars, readVars>>

\* RoArchive::istream(path) on a tarball; the caller keeps the stream in slot s
Istream(p, s) ==
    /\ archive.open
    /\ archive.detail.kind = "Tarball"
    /\ ~streams[s].live
    /\ LET r == TarballIstream(archive.detail, p) IN
       /\ streams' = IF r.ok THEN [streams EXCEPT ![s] = r.stream] ELSE streams
       /\ error' = IF r.ok THEN NoError ELSE r.error
       /\ call' = [op |-> "istream", path |-> p, slot |-> s, ok |-> r.ok,
                   before |-> archive, held |-> streams]
    /\ UNCHANGED <<files, hasHttp, archive>>
    /\ UNCHANGED <<matchVars, readVars>>

-----------------------------------------------------------------------------
(* The tar backend opened through RoArchive(path, hint, mime).             *)

\* the anchors a caller passes: present ones, an absent one, one with a
\* directory part
Anchors == { <<"a">>, <<"b">>, <<"c">>, <<"d", "/", "a">> }

Hints == {None} \cup { Some(h) : h \in Anchors }

\* the member paths a caller asks for: stored ones, stripped ones, and
\* spellings that only a normalisation would map to a key
Requests ==
    MemberPaths \cup
    { <<"b">>, <<"c">>, <<".", "/", "a">>, <<"d", "/", "/", "a">>, <<"a", "/">> }

IdleMatch ==
    /\ hint_ = <<>> /\ bestIndex_ = 0 /\ bestMatch_ = <<>>
    /\ seen = <<>> /\ mret = [called |-> FALSE]

IdleRead ==
    /\ src = [data |-> <<>>, pos |-> 0]
    /\ size_ = None /\ seekable_ = FALSE /\ rd = [done |-> FALSE]

InitTar ==
    /\ files \in MemberLists
    /\ hasHttp = FALSE
    /\ archive = NoArchive
    /\ error = NoError
    /\ call = NoCall
    /\ streams = [s \in StreamIds |-> NoStream]
    /\ IdleMatch /\ IdleRead

TarOpen ==
    \E h \in Hints :
        Open(ArchivePath, [inlineHint |-> None, hint |-> h, mime |-> MimeTar],
             MimeTar, TRUE)

TarIstream == \E p \in Requests : Istream(p, 1)

\* the caller drops a stream it holds
Drop ==
    /\ \E s \in StreamIds :
        /\ streams[s].live
        /\ streams' = [streams EXCEPT ![s] = NoStream]
        /\ call' = [op |-> "drop", slot |-> s]
    /\ UNCHANGED <<files, hasHttp, archive, error>>
    /\ UNCHANGED <<matchVars, readVars>>

NextTar == TarOpen \/ TarIstream \/ Drop

SpecTar == InitTar /\ [][NextTar]_vars


-----------------------------------------------------------------------------
(* Properties of the tar backend.                                          *)

\* the error kind NotFound: the std::runtime_error of findPrefix or of
\* TarIndex::file
IsNotFound(e) ==
    /\ e.set
    /\ e.type = "std::runtime_error"
    /\ e.text \in { "No %1 found in the tarball archive at %2.",
                   "File %1 not found in the archive at %2." }

TarOpened == archive.open /\ archive.detail.kind = "Tarball"

Keys == DOMAIN archive.detail.index.index_

\* the members whose filename equals the anchor, by position
AnchorHits(ms, anchor) ==
    { i \in 1..Len(ms) : Elements(anchor) = <<Filename(ms[i].path)>> }

FirstHit(ms, anchor) ==
    CHOOSE i \in AnchorHits(ms, anchor) : \A j \in AnchorHits(ms, anchor) : i <= j

\* the directory part of a member path, as elements
DirOf(p) == SubSeq(Elements(p), 1, Len(Elements(p)) - 1)

\* the prefix the specification describes, as elements
WantedPrefix(ms, hint) ==
    IF hint.has THEN DirOf(ms[FirstHit(ms, hint.v)].path) ELSE <<>>

Under(p, pre) ==
    \E k \in 0..Len(Elements(p)) : k = Len(pre) /\ SubSeq(Elements(p), 1, k) = pre

Stripped(p, pre) == Join(SubSeq(Elements(p), Len(pre) + 1, Len(Elements(p))))

MemberPathsOf(ms) == { ms[i].path : i \in 1..Len(ms) }

\* C1: after a tarball is opened, the keys of the index are exactly the
\* prefix-stripped paths of the members under the prefix (empty without a
\* hint, else the parent directory of the first member whose filename is the
\* anchor), and every key's descriptor is that of a member under the prefix;
\* {d/a, d/b} with anchor a gives {a, b}, and without a hint {d/a, d/b}.
C1_IndexKeys ==
    (call.op = "open" /\ call.ok /\ TarOpened) =>
        LET pre == WantedPrefix(files, call.hint) IN
        /\ Keys = { Stripped(files[i].path, pre) :
                      i \in { j \in 1..Len(files) : Under(files[j].path, pre) } }
        /\ \A k \in Keys :
              \E i \in 1..Len(files) :
                 /\ Under(files[i].path, pre)
                 /\ Stripped(files[i].path, pre) = k
                 /\ archive.detail.index.index_[k].start = DataStart(files, i)
        /\ (Len(files) = 2 /\ files[1].path = <<"d", "/", "a">>
                           /\ files[2].path = <<"d", "/", "b">>) =>
              /\ call.hint = Some(<<"a">>) => Keys = { <<"a">>, <<"b">> }
              /\ call.hint = None =>
                    Keys = { <<"d", "/", "a">>, <<"d", "/", "b">> }

\* C1 witness: a tarball opened with an anchor that matches two members in
\* different directories, one member left outside the prefix
C1_Witness ==
    /\ call.op = "open" /\ call.ok /\ TarOpened /\ call.hint.has
    /\ Cardinality(AnchorHits(files, call.hint.v)) = 2
    /\ \E i \in 1..Len(files) :
          ~Under(files[i].path, WantedPrefix(files, call.hint))
    /\ Keys # MemberPathsOf(files)

\* C2: opening a tarball with an anchor that is the filename of no member
\* fails with NotFound, and neither a backend nor a facade nor a stream exists
\* afterwards.
C2_MissingAnchorFails ==
    (call.op = "open" /\ call.magic = MimeTar /\ call.hint.has
        /\ AnchorHits(files, call.hint.v) = {}) =>
        /\ ~call.ok
        /\ IsNotFound(error)
        /\ error.a1 = call.hint.v /\ error.a2 = call.realPath
        /\ archive = NoArchive
        /\ \A s \in StreamIds : ~streams[s].live

\* C2 witness: a failed open of a tar file that has members, none of them
\* named like the anchor
C2_Witness ==
    /\ call.op = "open" /\ call.magic = MimeTar /\ call.hint.has
    /\ Len(files) > 0 /\ AnchorHits(files, call.hint.v) = {}
    /\ error.set /\ ~archive.open

\* C3: openMember(p) succeeds exactly when p is, as a string, a key of the
\* index; otherwise it fails with NotFound naming the requested member and the
\* archive path and hands out no stream; the index is the same afterwards.
C3_ExactLookup ==
    call.op = "istream" =>
        /\ call.ok <=> call.path \in Keys
        /\ archive = call.before
        /\ call.ok =>
              /\ ~error.set
              /\ streams[call.slot].live
              /\ streams[call.slot].fd = archive.detail.index.index_[call.path]
        /\ ~call.ok =>
              /\ IsNotFound(error)
              /\ error.a1 = call.path /\ error.a2 = archive.detail.path
              /\ streams = call.held

\* C3 witness: a lookup that failed although the path it asked for
\* normalises to a key of the index
C3_Witness ==
    /\ call.op = "istream" /\ ~call.ok
    /\ Join(Elements(call.path)) \in Keys

\* the member a descriptor of the index was built from
MemberAt(start) == CHOOSE i \in 1..Len(files) : DataStart(files, i) = start

\* C10 as stated: every descriptor of the index has end > start, so every
\* member stream exposes a positive size.
C10_EndAboveStart ==
    TarOpened =>
        /\ \A k \in Keys :
              archive.detail.index.index_[k].end > archive.detail.index.index_[k].start
        /\ \A s \in StreamIds : streams[s].live => streams[s].size > 0

\* C10 amended: every descriptor of the index has end >= start, and the size a
\* member stream exposes is end - start, the member's byte length, which is
\* zero for an empty member and never wrapped around.
C10_EndNotBelowStart ==
    TarOpened =>
        /\ \A k \in Keys :
              LET d == archive.detail.index.index_[k] IN
              /\ d.end >= d.start
              /\ \E i \in 1..Len(files) : DataStart(files, i) = d.start
              /\ d.end - d.start = files[MemberAt(d.start)].size
        /\ \A s \in StreamIds :
              streams[s].live =>
                 /\ streams[s].size = streams[s].fd.end - streams[s].fd.start
                 /\ streams[s].size = files[MemberAt(streams[s].fd.start)].size

\* C10 witness: a stream opened on an empty member that follows a non-empty one
C10_Witness ==
    /\ TarOpened
    /\ \E s \in StreamIds :
          /\ streams[s].live
          /\ streams[s].size = 0
          /\ streams[s].fd.start > BlockSize


-----------------------------------------------------------------------------
(* Member streams read side by side over the shared handle.                *)

\* utility::io::SubStreamDevice::read, asked for n bytes by the stream
\* buffer: a positioned read of the shared handle at the device's own
\* offset, cut at fd.end; got is what the read returns (0 at the end)
SubStreamRead(st, got) ==
    [st EXCEPT !.buf = [i \in 1..got |-> ByteAt(st.pos + i - 1)],
               !.pos = st.pos + got,
               !.eof = (got = 0)]

\* std::istream underflow on TarIStream::get(): the buffer is empty and is
\* refilled from the device; a positioned read may return fewer bytes than
\* asked for
Refill ==
    /\ \E s \in StreamIds :
        /\ streams[s].live /\ streams[s].buf = <<>> /\ ~streams[s].eof
        /\ LET most == Min(BufSize, streams[s].fd.end - streams[s].pos) IN
           \E got \in (IF most = 0 THEN {0} ELSE 1..most) :
               streams' = [streams EXCEPT ![s] = SubStreamRead(streams[s], got)]
    /\ UNCHANGED <<files, hasHttp, archive, error, call>>
    /\ UNCHANGED <<matchVars, readVars>>

\* the caller takes the next byte out of a stream's buffer
Get ==
    /\ \E s \in StreamIds :
        /\ streams[s].live /\ streams[s].buf # <<>>
        /\ streams' = [streams EXCEPT ![s].out = Append(@, Head(streams[s].buf)),
                                      ![s].buf = Tail(@)]
    /\ UNCHANGED <<files, hasHttp, archive, error, call>>
    /\ UNCHANGED <<matchVars, readVars>>

\* tar files of two members, for two streams to share
TwoMemberLists ==
    { ms \in MemberLists :
        /\ Len(ms) = 2
        /\ ms[1].path = <<"a">>
        /\ ms[2].path = <<"d", "/", "a">> }

InitStreams ==
    /\ files \in TwoMemberLists
    /\ hasHttp = FALSE
    /\ archive = NoArchive
    /\ error = NoError
    /\ call = NoCall
    /\ streams = [s \in StreamIds |-> NoStream]
    /\ IdleMatch /\ IdleRead

StreamOpen == \E p \in MemberPaths, s \in StreamIds : Istream(p, s)

NextStreams == TarOpen \/ StreamOpen \/ Refill \/ Get \/ Drop

SpecStreams == InitStreams /\ [][NextStreams]_vars

\* the bytes of the range [start, end) of the tar file
RangeBytes(fd) == [i \in 1..(fd.end - fd.start) |-> ByteAt(fd.start + i - 1)]

-----------------------------------------------------------------------------
(* src/roarchive/roarchive.cpp: FileHint::Matcher::operator().             *)

\* the loop of a loop bound other than bestIndex_: it looks at index
\* bestIndex_ as well
RECURSIVE MatcherLoopInclusive(_, _, _, _, _, _)
MatcherLoopInclusive(hint, best, match, path, index, compared) ==
    IF index > best \/ index >= Len(hint)
    THEN [bestIndex |-> best, bestMatch |-> match, compared |-> compared]
    ELSE IF PathEq(Filename(path), hint[index + 1])
         THEN [bestIndex |-> index, bestMatch |-> path, compared |-> compared + 1]
         ELSE MatcherLoopInclusive(hint, best, match, path, index + 1, compared + 1)

\* lines 230-236: for (index = 0; index < bestIndex_; ++index), with the
\* number of comparisons made so far; indices count from 0 as in the code
RECURSIVE MatcherLoop(_, _, _, _, _, _)
MatcherLoop(hint, best, match, path, index, compared) ==
    IF ~(index < best)
    THEN [bestIndex |-> best, bestMatch |-> match, compared |-> compared]
    ELSE IF PathEq(Filename(path), hint[index + 1])
         THEN [bestIndex |-> index, bestMatch |-> path, compared |-> compared + 1]
         ELSE MatcherLoop(hint, best, match, path, index + 1, compared + 1)

\* a matcher that reports "done" as soon as anything has matched
MatcherReturnAnyMatch(hint, best, match, path) ==
    LET r == MatcherLoop(hint, best, match, path, 0, 0) IN
    [bestIndex |-> r.bestIndex, bestMatch |-> r.bestMatch,
     compared |-> r.compared, ret |-> (r.bestIndex < Len(hint))]

\* FileHint::Matcher::operator()(path): the loop, then return !bestIndex_
MatcherApply(hint, best, match, path) ==
    LET r == MatcherLoop(hint, best, match, path, 0, 0) IN
    [bestIndex |-> r.bestIndex, bestMatch |-> r.bestMatch,
     compared |-> r.compared, ret |-> (r.bestIndex = 0)]

\* candidate filenames, one of them in two spellings, and a candidate with
\* a directory part, which is the filename of no path
CandidateNames == { <<"a">>, <<"A">>, <<"b">>, <<"s", "/", "a">> }

Candidates == UNION { [1..n -> CandidateNames] : n \in 0..MaxCandidates }

\* the paths a scan comes across
ObservedPaths ==
    { <<"a">>,
      <<"s", "/", "a">>,
      <<"t", "/", "a">>,
      <<"t", "/", "A">>,
      <<"s", "/", "b">>,
      <<"s", "/", "c">> }

IdleTar ==
    /\ files = <<>> /\ hasHttp = FALSE /\ archive = NoArchive
    /\ error = NoError /\ call = NoCall
    /\ streams = [s \in StreamIds |-> NoStream]

\* a Matcher right after construction: nothing matched yet
InitMatch ==
    /\ hint_ \in Candidates
    /\ bestIndex_ = Len(hint_)
    /\ bestMatch_ = <<>>
    /\ seen = <<>>
    /\ mret = [called |-> FALSE]
    /\ IdleTar /\ IdleRead

\* one call of the matcher during a scan
MatcherCall ==
    /\ Len(seen) < MaxSeen
    /\ \E path \in ObservedPaths :
        LET r == MatcherApply(hint_, bestIndex_, bestMatch_, path) IN
        /\ bestIndex_' = r.bestIndex
        /\ bestMatch_' = r.bestMatch
        /\ seen' = Append(seen, path)
        /\ mret' = [called |-> TRUE, ret |-> r.ret, compared |-> r.compared,
                    oldIndex |-> bestIndex_, oldMatch |-> bestMatch_,
                    oldRet |-> (mret.called /\ mret.ret)]
    /\ UNCHANGED hint_
    /\ UNCHANGED <<tarVars, readVars>>

NextMatch == MatcherCall

SpecMatch == InitMatch /\ [][NextMatch]_vars

\* the candidate indices (from 0) that equal the filename of a seen path
MatchedIndices ==
    { i \in 0..(Len(hint_) - 1) :
        \E k \in 1..Len(seen) : Elements(hint_[i + 1]) = <<Filename(seen[k])>> }

\* the positions in seen of the paths whose filename is candidate i
SeenWith(i) ==
    { k \in 1..Len(seen) : Elements(hint_[i + 1]) = <<Filename(seen[k])>> }

\* C4: after any sequence of calls, bestIndex_ is the smallest candidate
\* index whose candidate is the filename of a seen path (the number of
\* candidates if there is none), bestMatch_ is the earliest seen path with
\* that filename (empty if none), and no call raises bestIndex_.
C4_FirstPriorityWins ==
    /\ bestIndex_ = IF MatchedIndices = {} THEN Len(hint_)
                    ELSE CHOOSE i \in MatchedIndices :
                            \A j \in MatchedIndices : i <= j
    /\ bestMatch_ = IF MatchedIndices = {} THEN <<>>
                    ELSE seen[CHOOSE k \in SeenWith(bestIndex_) :
                                 \A l \in SeenWith(bestIndex_) : k <= l]
    /\ mret.called => bestIndex_ <= mret.oldIndex

\* C4 witness: a lower-priority candidate was found first, the best one
\* later, and a further path with the best candidate's name came after it
C4_Witness ==
    /\ Len(seen) = 3 /\ Len(hint_) = 2
    /\ bestIndex_ = 0
    /\ Elements(hint_[2]) = <<Filename(seen[1])>>
    /\ SeenWith(0) = {2, 3}
    /\ seen[2] # seen[3]

\* C5: a call returns true exactly when bestIndex_ is 0 after it; after a
\* call that returned true, a call compares nothing, changes neither
\* bestIndex_ nor bestMatch_ and returns true; with candidates [a, A] and
\* paths [s/a, t/A] the state after the first is (0, s/a) with the signal
\* true, and the second is not compared.
C5_StopSignal ==
    mret.called =>
        /\ mret.ret <=> (bestIndex_ = 0)
        /\ mret.oldRet =>
              /\ mret.compared = 0
              /\ bestIndex_ = mret.oldIndex
              /\ bestMatch_ = mret.oldMatch
              /\ mret.ret
        /\ (hint_ = << <<"a">>, <<"A">> >> /\ seen = << <<"s", "/", "a">> >>) =>
              /\ bestIndex_ = 0 /\ bestMatch_ = <<"s", "/", "a">> /\ mret.ret
        /\ (hint_ = << <<"a">>, <<"A">> >>
                /\ seen = << <<"s", "/", "a">>, <<"t", "/", "A">> >>) =>
              /\ bestIndex_ = 0 /\ bestMatch_ = <<"s", "/", "a">>
              /\ mret.compared = 0 /\ mret.ret

\* C5 witness: the example's second call, made after the signal was true
\* with a path that carries the other candidate's name
C5_Witness ==
    /\ mret.called /\ mret.oldRet
    /\ hint_ = << <<"a">>, <<"A">> >>
    /\ seen = << <<"s", "/", "a">>, <<"t", "/", "A">> >>


-----------------------------------------------------------------------------
(* src/roarchive/roarchive.cpp: IStream::read.                             *)

\* utility::binaryio::read(s, buf, n) on a stream that throws on failbit:
\* exactly n bytes from the current position, or an exception
BinaryRead(s, n) ==
    IF s.pos + n <= Len(s.data)
    THEN [ok |-> TRUE, buf |-> SubSeq(s.data, s.pos + 1, s.pos + n),
          pos |-> s.pos + n]
    ELSE [ok |-> FALSE, buf |-> <<>>, pos |-> Len(s.data)]

\* boost::iostreams::copy(s, os): chunk after chunk from the current
\* position until the source is exhausted
RECURSIVE CopyFrom(_, _, _)
CopyFrom(data, pos, acc) ==
    IF pos >= Len(data) THEN acc
    ELSE LET n == Min(CopyChunk, Len(data) - pos) IN
         CopyFrom(data, pos + n, acc \o SubSeq(data, pos + 1, pos + n))

\* a read() that measures the stream and does not seek back to its start
IStreamReadNoRewind(s, size, seekable) ==
    IF size.has
    THEN [strategy |-> "size"] @@ BinaryRead(s, size.v)
    ELSE IF seekable
    THEN [strategy |-> "seek"]
            @@ BinaryRead([s EXCEPT !.pos = Len(s.data)], Len(s.data))
    ELSE [strategy |-> "copy", ok |-> TRUE,
          buf |-> CopyFrom(s.data, s.pos, <<>>), pos |-> Len(s.data)]

\* IStream::read(): lines 159-164 when size_ is set, lines 165-172 when the
\* stream is seekable (tellg at the end, seekg(0), read), lines 174-178 else
IStreamRead(s, size, seekable) ==
    IF size.has
    THEN [strategy |-> "size"] @@ BinaryRead(s, size.v)
    ELSE IF seekable
    THEN [strategy |-> "seek"]
            @@ BinaryRead([s EXCEPT !.pos = 0], Len(s.data))
    ELSE [strategy |-> "copy", ok |-> TRUE,
          buf |-> CopyFrom(s.data, s.pos, <<>>), pos |-> Len(s.data)]

Bytes == {0, 1}

Contents == UNION { [1..n -> Bytes] : n \in 0..MaxData }

\* a stream a backend hands out: at its start, its size either known exactly
\* or not, seekable or not
InitRead ==
    /\ \E data \in Contents :
        /\ src = [data |-> data, pos |-> 0]
        /\ size_ \in {None, Some(Len(data))}
    /\ seekable_ \in BOOLEAN
    /\ rd = [done |-> FALSE]
    /\ IdleTar /\ IdleMatch

\* the caller reads one byte through get() before asking for the content
Consume ==
    /\ src.pos < Len(src.data)
    /\ src' = [src EXCEPT !.pos = @ + 1]
    /\ UNCHANGED <<size_, seekable_, rd>>
    /\ UNCHANGED <<tarVars, matchVars>>

Read ==
    /\ LET r == IStreamRead(src, size_, seekable_) IN
       /\ rd' = [done |-> TRUE, strategy |-> r.strategy, ok |-> r.ok,
                 buf |-> r.buf, from |-> src.pos]
       /\ src' = [src EXCEPT !.pos = r.pos]
    /\ UNCHANGED <<size_, seekable_>>
    /\ UNCHANGED <<tarVars, matchVars>>

NextRead == Consume \/ Read

SpecRead == InitRead /\ [][NextRead]_vars

\* C8: read() takes the size strategy when the size is known, else the seek
\* strategy when the stream is seekable, else the copy strategy; called on a
\* stream at its start it returns the stream's bytes, all of them and
\* unchanged, whichever strategy that is.
C8_ReadWhole ==
    rd.done =>
        /\ rd.strategy = IF size_.has THEN "size"
                         ELSE IF seekable_ THEN "seek" ELSE "copy"
        /\ rd.from = 0 => (rd.ok /\ rd.buf = src.data)

\* C8 witness: a seekable stream of unknown size, longer than one copy
\* chunk, read whole from its start
C8_Witness ==
    /\ rd.done /\ rd.from = 0 /\ rd.strategy = "seek"
    /\ Len(src.data) > CopyChunk
    /\ src.data[1] # src.data[Len(src.data)]


-----------------------------------------------------------------------------
(* RoArchive::factory over paths, options and file types of every kind.    *)

OpenPaths ==
    { <<"t">>,
      <<"t", "#", "a">>,
      <<"t", "#", "a", "#", "b">>,
      <<"t", "#", "d", "/", "a">>,
      <<"#", "a">>,
      <<"h", "t", "t", "p", ":", "/", "/", "t">>,
      <<"h", "t", "t", "p", "s", ":", "/", "/", "t", "#", "a">>,
      <<"f", ":", "t">> }

\* OpenOptions: no marker or '#', no hint or an anchor, no type or one given
OpenOptionsSet ==
    [inlineHint : {None, Some("#")},
     hint : {None, Some(<<"a">>), Some(<<"c">>)},
     mime : {"", MimeDirectory, MimeTar, MimeZip, MimeHttp, "text/plain"}]

\* what utility::Magic can answer for a path
SniffedTypes == {MimeDirectory, MimeTar, MimeZip, "text/plain"}

\* the tar file found at the real path, when it is one
OpenTarFiles ==
    { <<>>,
      << [path |-> <<"d", "/", "a">>, size |-> 1],
         [path |-> <<"d", "/", "b">>, size |-> 2] >>,
      << [path |-> <<"e", "/", "a">>, size |-> 0],
         [path |-> <<"a">>, size |-> 1] >> }

InitOpen ==
    /\ files \in OpenTarFiles
    /\ hasHttp \in BOOLEAN
    /\ archive = NoArchive
    /\ error = NoError
    /\ call = NoCall
    /\ streams = [s \in StreamIds |-> NoStream]
    /\ IdleMatch /\ IdleRead

AnyOpen ==
    \E path \in OpenPaths, opts \in OpenOptionsSet,
       sniffed \in SniffedTypes, extOk \in BOOLEAN :
        Open(path, opts, sniffed, extOk)

NextOpen == AnyOpen \/ TarIstream

SpecOpen == InitOpen /\ [][NextOpen]_vars

\* whether the configured marker occurs in the path
MarkerIn(path, opts) ==
    opts.inlineHint.has /\ \E i \in 1..Len(path) : path[i] = opts.inlineHint.v

\* C6: with a marker configured and present in the path, the real path is
\* the text before the marker's first occurrence and the hint all the text
\* after it, whatever hint the options carried; otherwise path and hint are
\* the supplied ones; t#d/a gives real path t and hint d/a.
C6_InlineHintSplit ==
    call.op = "open" =>
        /\ MarkerIn(call.path, call.opts) =>
              /\ call.hint.has
              /\ call.realPath \o <<call.opts.inlineHint.v>> \o call.hint.v
                    = call.path
              /\ \A i \in 1..Len(call.realPath) :
                    call.realPath[i] # call.opts.inlineHint.v
        /\ ~MarkerIn(call.path, call.opts) =>
              /\ call.realPath = call.path
              /\ call.hint = call.opts.hint
        /\ (call.path = <<"t", "#", "d", "/", "a">> /\ call.opts.inlineHint.has) =>
              /\ call.realPath = <<"t">>
              /\ call.hint = Some(<<"d", "/", "a">>)

\* C6 witness: a path with two markers opened with a hint in the options
C6_Witness ==
    /\ call.op = "open"
    /\ call.path = <<"t", "#", "a", "#", "b">>
    /\ call.opts.inlineHint.has /\ call.opts.hint.has
    /\ call.hint = Some(<<"a", "#", "b">>)

\* whether a path is a URI of scheme http or https
IsHttpUri(p) ==
    \E i \in 1..Len(p) :
        /\ p[i] = ":"
        /\ \A j \in 1..(i - 1) : p[j] # ":"
        /\ SubSeq(p, 1, i - 1) \in {SchemeHttp, SchemeHttps}

\* the type the specification resolves an open to
WantedType ==
    IF call.opts.mime # "" THEN call.opts.mime
    ELSE IF IsHttpUri(call.realPath) THEN "http"
    ELSE call.sniffed

\* the backend the specification dispatches a type to, "none" if there is none
WantedBackend(type) ==
    CASE type = "inode/directory" -> "Directory"
      [] type = "application/x-tar" -> "Tarball"
      [] type = "application/zip" -> "Zip"
      [] type = "http" /\ hasHttp -> "Http"
      [] OTHER -> "none"

\* C7: the resolved type is the override if given, else "http" for an http
\* or https URI, else the sniffed type; a backend that comes out of open is
\* the one that type dispatches to, and a type that dispatches to none makes
\* open fail with NotAnArchive carrying the type and creates no backend.
C7_TypeDispatch ==
    call.op = "open" =>
        /\ call.magic = WantedType
        /\ archive.open => archive.detail.kind = WantedBackend(call.magic)
        /\ call.ok <=> archive.open
        /\ WantedBackend(call.magic) = "none" =>
              /\ ~call.ok /\ ~archive.open
              /\ error.set /\ error.type = "NotAnArchive"
              /\ error.a1 = call.magic
        /\ WantedBackend(call.magic) # "none" =>
              (error.set => error.type # "NotAnArchive")
        /\ (call.opts.mime = "" /\ ~IsHttpUri(call.realPath)
                /\ call.sniffed = "text/plain") =>
              (error.set /\ error.type = "NotAnArchive" /\ error.a1 = "text/plain")

\* C7 witness: no override, an https URI, and a build without HTTP support:
\* the type is "http" although the file sniffs as a tarball, and no backend
\* takes it
C7_Witness ==
    /\ call.op = "open" /\ call.opts.mime = ""
    /\ IsHttpUri(call.realPath) /\ call.sniffed = MimeTar /\ ~hasHttp
    /\ error.set /\ error.type = "NotAnArchive" /\ error.a1 = "http"

=============================================================================
